---- MODULE Spec2Model ----
(***************************************************************************)
(* Model of browser_use/browser/views.py: TabInfo, BrowserStateSummary,   *)
(* BrowserStateHistory (get_screenshot, to_dict).                          *)
(*                                                                         *)
(* Python values are modelled as follows.                                  *)
(*   - An optional value (X | None) is a sequence of length at most one:   *)
(*     None is <<>> and a present value v is <<v>>.                        *)
(*   - A TabInfo object is the tuple of its fields in declaration order,   *)
(*     <<page_id, url, title, parent_page_id>>; a plain mapping (dict) is  *)
(*     a function from key strings to values.                              *)
(*   - A Python list is an object with identity: dataclass fields hold a   *)
(*     reference (an index into the heap of lists), never a copy.          *)
(*   - bytes are sequences of integers 0..255, str is a sequence of        *)
(*     one-character strings.                                              *)
(***************************************************************************)
EXTENDS Integers, Sequences, FiniteSets, TLC

VARIABLES
    \* ---- the objects
    lists,        \* heap of the reachable list[TabInfo] objects: id -> contents
    snapshot,     \* the current BrowserStateSummary, <<>> before the first one
    entry,        \* the BrowserStateHistory under study, <<>> before creation
    dumped,       \* the mapping last returned by entry.to_dict(), <<>> if none
    \* ---- the file system and one call of get_screenshot()
    disk,         \* path -> state of what the path names
    pc,           \* position of the get_screenshot() call
    fh,           \* the open file object of the call, <<>> when none
    ret,          \* value returned by the call (optional str)
    exc,          \* exception that left the call, "" when none
    \* ---- history variables (observations only, never read by the code)
    supplied,     \* arguments given to the constructor of `snapshot`
    targets,      \* the action targets of the step `entry` was created for
    captured,     \* contents of the entry's tab list when it was created
    fresh,        \* nothing was done to `snapshot` since its construction
    sawFile,      \* exists() returned True in the current call
    caught,       \* exception swallowed by the except clause, "" when none
    readData,     \* bytes f.read() returned in the current call
    interfered    \* the file system changed while the call was running

objVars == <<lists, snapshot, entry, dumped, supplied, targets, captured, fresh>>
fsVars == <<disk, pc, fh, ret, exc, sawFile, caught, readData, interfered>>
vars == <<lists, snapshot, entry, dumped, disk, pc, fh, ret, exc,
          supplied, targets, captured, fresh, sawFile, caught, readData, interfered>>

None == <<>>
Some(v) == <<v>>

\* ------------------------------------------------------------------ bounds
MaxFileLen == 3
MaxTabs == 2
MaxTargets == 2
MaxErrors == 1

\* ------------------------------------------------------- base64 and utf-8
\* str(chr(c)) for the ASCII codes base64 produces.
AsciiTable ==
    [c \in 0..127 |->
        IF c >= 65 /\ c <= 90 THEN
            <<"A","B","C","D","E","F","G","H","I","J","K","L","M",
              "N","O","P","Q","R","S","T","U","V","W","X","Y","Z">>[c - 64]
        ELSE IF c >= 97 /\ c <= 122 THEN
            <<"a","b","c","d","e","f","g","h","i","j","k","l","m",
              "n","o","p","q","r","s","t","u","v","w","x","y","z">>[c - 96]
        ELSE IF c >= 48 /\ c <= 57 THEN
            <<"0","1","2","3","4","5","6","7","8","9">>[c - 47]
        ELSE IF c = 43 THEN "+"
        ELSE IF c = 47 THEN "/"
        ELSE IF c = 45 THEN "-"
        ELSE IF c = 95 THEN "_"
        ELSE IF c = 61 THEN "="
        ELSE "?"]

\* The standard base64 alphabet, as the ASCII code of the digit for a sextet.
B64Digit(n) ==
    IF n < 26 THEN 65 + n
    ELSE IF n < 52 THEN 97 + (n - 26)
    ELSE IF n < 62 THEN 48 + (n - 52)
    ELSE IF n = 62 THEN 43
    ELSE 47

\* The URL-safe alphabet (base64.urlsafe_b64encode), a variant the encoding is compared against.
B64DigitUrlSafe(n) ==
    IF n = 62 THEN 45 ELSE IF n = 63 THEN 95 ELSE B64Digit(n)

B64Pad == 61

\* The 6-bit groups of the data, three bytes to four groups; 64 marks padding.
RECURSIVE B64Sextets(_)
B64Sextets(d) ==
    IF Len(d) = 0 THEN <<>>
    ELSE IF Len(d) = 1 THEN
        <<d[1] \div 4, (d[1] % 4) * 16, 64, 64>>
    ELSE IF Len(d) = 2 THEN
        <<d[1] \div 4, (d[1] % 4) * 16 + d[2] \div 16, (d[2] % 16) * 4, 64>>
    ELSE
        <<d[1] \div 4, (d[1] % 4) * 16 + d[2] \div 16,
          (d[2] % 16) * 4 + d[3] \div 64, d[3] % 64>>
        \o B64Sextets(SubSeq(d, 4, Len(d)))

b64encodeUrlSafe(d) ==
    LET g == B64Sextets(d)
    IN  [i \in 1..Len(g) |-> IF g[i] = 64 THEN B64Pad ELSE B64DigitUrlSafe(g[i])]

\* base64.b64encode(data): bytes -> bytes (ASCII).
b64encode(d) ==
    LET g == B64Sextets(d)
    IN  [i \in 1..Len(g) |-> IF g[i] = 64 THEN B64Pad ELSE B64Digit(g[i])]

\* bytes.decode('utf-8') on ASCII input; a byte >= 128 alone is not valid UTF-8.
Utf8Decodable(bs) == \A i \in 1..Len(bs) : bs[i] < 128
Utf8Decode(bs) == [i \in 1..Len(bs) |-> AsciiTable[bs[i]]]

\* ------------------------------------------------------------ file system
\* The path of a screenshot file, and a path whose last component is longer
\* than NAME_MAX: no file can have that name and stat() fails with ENAMETOOLONG.
FilePath == "shot.png"
LongPath == "aaaa...(300 characters).png"

Bytes == {0, 137, 255}
RECURSIVE SeqsUpTo(_, _)
SeqsUpTo(S, n) ==
    IF n = 0 THEN {<<>>}
    ELSE LET shorter == SeqsUpTo(S, n - 1)
         IN  shorter \cup {Append(q, x) : q \in {t \in shorter : Len(t) = n - 1}, x \in S}
FileData == SeqsUpTo(Bytes, MaxFileLen)

\* What a path names: nothing, a directory, or a regular file with its bytes.
\* mode "noperm": open() is refused; mode "ioerr": read() fails with EIO.
Absent == [kind |-> "absent", data |-> <<>>, mode |-> "ok"]
Dir == [kind |-> "dir", data |-> <<>>, mode |-> "ok"]
File(data, mode) == [kind |-> "file", data |-> data, mode |-> mode]
FileStates ==
    {Absent, Dir} \cup {File(d, m) : d \in FileData, m \in {"ok", "noperm", "ioerr"}}

\* Path('') is Path('.'), the current directory.
Lookup(d, p) == IF p = "" THEN Dir ELSE d[p]

\* os.stat(path): "ok" or the errno it fails with.
Stat(d, p) ==
    IF p = LongPath THEN "ENAMETOOLONG"
    ELSE IF Lookup(d, p).kind = "absent" THEN "ENOENT"
    ELSE "ok"

\* pathlib.Path.exists(): True when stat() succeeds, False when it fails with
\* ENOENT, ENOTDIR, EBADF or ELOOP. Any other errno is re-raised as OSError by
\* CPython up to 3.13 and turned into False by later versions.
ExistsOutcomes(d, p) ==
    IF Stat(d, p) = "ok" THEN {"true"}
    ELSE IF Stat(d, p) = "ENOENT" THEN {"false"}
    ELSE {"raise", "false"}

\* open(path, 'rb'): "ok" or the exception it raises.
OpenResult(d, p) ==
    IF p = LongPath THEN "OSError"
    ELSE IF Lookup(d, p).kind = "absent" THEN "FileNotFoundError"
    ELSE IF Lookup(d, p).kind = "dir" THEN "IsADirectoryError"
    ELSE IF Lookup(d, p).mode = "noperm" THEN "PermissionError"
    ELSE "ok"

\* ---------------------------------------------------------- get_screenshot
\* `if not self.screenshot_path`: None and '' are both falsy.

NoPath(path) == path = None \/ path = Some("")

ExceptionClasses ==
    {"TypeError", "OSError", "FileNotFoundError", "PermissionError",
     "IsADirectoryError", "UnicodeDecodeError"}

CaughtOnlyNotFound(e) == e = "FileNotFoundError"

CaughtOnlyPermission(e) == e = "PermissionError"

\* `except Exception`: every exception class above derives from Exception.
Caught(e) == e \in ExceptionClasses

E == entry[1]

\* An exception raised outside the try block leaves the call.
Raise(e) ==
    /\ exc' = e
    /\ pc' = "done"
    /\ UNCHANGED <<ret, caught>>

Return(v) ==
    /\ ret' = v
    /\ pc' = "done"
    /\ UNCHANGED <<exc, caught>>

\* An exception raised inside the try block: swallowed if the clause matches.
Except(e) ==
    IF Caught(e)
    THEN /\ caught' = e
         /\ ret' = None
         /\ pc' = "done"
         /\ UNCHANGED exc
    ELSE /\ exc' = e
         /\ pc' = "done"
         /\ UNCHANGED <<ret, caught>>

\* Entry into the call and the test of line 83.
Call ==
    /\ pc = "idle"
    /\ entry # None
    /\ IF NoPath(E.screenshot_path) THEN Return(None)
       ELSE pc' = "exists" /\ UNCHANGED <<ret, exc, caught>>
    /\ UNCHANGED <<disk, fh, sawFile, readData, interfered>>
    /\ UNCHANGED objVars

\* Lines 89-91: Path(self.screenshot_path) and path_obj.exists().
CheckExists ==
    /\ pc = "exists"
    /\ IF E.screenshot_path = None
       THEN Raise("TypeError") /\ UNCHANGED sawFile
       ELSE \E o \in ExistsOutcomes(disk, E.screenshot_path[1]) :
              \/ o = "raise" /\ Raise("OSError") /\ UNCHANGED sawFile
              \/ o = "false" /\ Return(None) /\ UNCHANGED sawFile
              \/ /\ o = "true"
                 /\ pc' = "open"
                 /\ sawFile' = TRUE
                 /\ UNCHANGED <<ret, exc, caught>>
    /\ UNCHANGED <<disk, fh, readData, interfered>>
    /\ UNCHANGED objVars

\* Line 94: open(path_obj, 'rb') inside the try block.
OpenFile ==
    /\ pc = "open"
    /\ LET p == E.screenshot_path[1]
           r == OpenResult(disk, p)
       IN  IF r = "ok"
           THEN /\ fh' = Some([data |-> Lookup(disk, p).data,
                               mode |-> Lookup(disk, p).mode])
                /\ pc' = "read"
                /\ UNCHANGED <<ret, exc, caught>>
           ELSE Except(r) /\ UNCHANGED fh
    /\ UNCHANGED <<disk, sawFile, readData, interfered>>
    /\ UNCHANGED objVars

\* Lines 95-96: f.read(), the end of the with block, b64encode and decode.
ReadEncode ==
    /\ pc = "read"
    /\ fh' = None
    /\ IF fh[1].mode = "ioerr"
       THEN Except("OSError") /\ UNCHANGED readData
       ELSE /\ readData' = fh[1].data
            /\ LET b == b64encode(fh[1].data)
               IN  IF Utf8Decodable(b)
                   THEN Return(Some(Utf8Decode(b)))
                   ELSE Except("UnicodeDecodeError")
    /\ UNCHANGED <<disk, sawFile, interfered>>
    /\ UNCHANGED objVars

\* The caller has the result; the next call may start.
Finish ==
    /\ pc = "done"
    /\ pc' = "idle"
    /\ ret' = None
    /\ exc' = ""
    /\ caught' = ""
    /\ sawFile' = FALSE
    /\ readData' = <<>>
    /\ interfered' = FALSE
    /\ UNCHANGED <<disk, fh>>
    /\ UNCHANGED objVars

\* ---- other processes acting on the file system, at any moment
\* The states and contents other processes leave the file in.
EnvStates ==
    {Absent, Dir, File(<<>>, "ok"), File(<<137, 255>>, "ok"), File(<<0>>, "noperm")}
EnvData == {<<>>, <<255>>, <<137, 0>>}

\* unlink, create, mkdir, chmod, rename over: an open file object keeps its file.
FsSet ==
    /\ \E st \in EnvStates :
         /\ st # disk[FilePath]
         /\ disk' = [disk EXCEPT ![FilePath] = st]
    /\ interfered' = (pc # "idle")
    /\ UNCHANGED <<pc, fh, ret, exc, sawFile, caught, readData>>
    /\ UNCHANGED objVars

\* A write into the existing file: an open file object sees the new bytes.
FsWrite ==
    /\ disk[FilePath].kind = "file"
    /\ \E d \in EnvData :
         /\ d # disk[FilePath].data
         /\ disk' = [disk EXCEPT ![FilePath].data = d]
         /\ fh' = IF fh = None THEN None ELSE Some([fh[1] EXCEPT !.data = d])
    /\ interfered' = (pc # "idle")
    /\ UNCHANGED <<pc, ret, exc, sawFile, caught, readData>>
    /\ UNCHANGED objVars

\* The medium under the existing file fails: later reads give EIO.
FsFault ==
    /\ disk[FilePath].kind = "file"
    /\ disk[FilePath].mode # "ioerr"
    /\ disk' = [disk EXCEPT ![FilePath].mode = "ioerr"]
    /\ fh' = IF fh = None THEN None ELSE Some([fh[1] EXCEPT !.mode = "ioerr"])
    /\ interfered' = (pc # "idle")
    /\ UNCHANGED <<pc, ret, exc, sawFile, caught, readData>>
    /\ UNCHANGED objVars

\* ------------------------------------------------------------------ TabInfo
\* TabInfo(page_id, url, title, parent_page_id=None): the tuple of its fields.
TabInfo(page_id, url, title, parent_page_id) == <<page_id, url, title, parent_page_id>>

TabValues ==
    {TabInfo(1, "https://a.test", "A", None),
     TabInfo(2, "https://b.test", "B", Some(1))}

TabLists == SeqsUpTo(TabValues, MaxTabs)

\* BaseModel.model_dump(exclude_none=True), a variant model_dump is compared against.
model_dumpExcludeNone(tab) ==
    IF tab[4] = None
    THEN [page_id |-> tab[1], url |-> tab[2], title |-> tab[3]]
    ELSE [page_id |-> tab[1], url |-> tab[2], title |-> tab[3], parent_page_id |-> tab[4]]

\* BaseModel.model_dump(): the plain mapping of the declared fields.
model_dump(tab) ==
    [page_id |-> tab[1], url |-> tab[2], title |-> tab[3], parent_page_id |-> tab[4]]

\* ------------------------------------------------------- DOMHistoryElement
\* The durable element reference is built and serialised outside this file
\* (browser_use.dom.history_tree_processor.service): an element is the tuple
\* <<tag_name, xpath, highlight_index>> and el.to_dict() its plain mapping.
ElemValues ==
    {<<"button", "/html/body/button", Some(1)>>, <<"a", "/html/body/a", None>>}

ElToDict(el) == [tag_name |-> el[1], xpath |-> el[2], highlight_index |-> el[3]]

\* An action target: the element it resolved to, or None when unresolved.
TargetLists == SeqsUpTo({None} \cup {Some(el) : el \in ElemValues}, MaxTargets)

\* The interacted_element list handed to the constructor: one slot per target.
ResolveTargets(ts) == [i \in 1..Len(ts) |-> ts[i]]

\* ------------------------------------------------------ BrowserStateSummary
\* Known placeholder image data for about:blank pages - a 4x4 white PNG.
PLACEHOLDER_4PX_SCREENSHOT == "iVBORw0KGgoAAAANSUhEUgAAAAQAAAAECAIAAAAmkwkpAAAAFElEQVR4nGP8//8/AwwwMSAB3BwAlm4DBfIlvvkAAAAASUVORK5CYII="

\* A keyword argument that has a default is either given or left out.
NotGiven == <<>>
Given(v) == <<v>>
OrDefault(arg, default) == IF arg = NotGiven THEN default ELSE arg[1]

\* Constructor arguments tried by the model; tabs is added by the caller.
SummaryArgs ==
    {[element_tree |-> "tree", selector_map |-> "map", url |-> "https://a.test",
      title |-> "A", screenshot |-> NotGiven, page_info |-> NotGiven,
      pixels_above |-> NotGiven, pixels_below |-> NotGiven,
      browser_errors |-> NotGiven, is_pdf_viewer |-> NotGiven,
      loading_status |-> NotGiven],
     [element_tree |-> "tree", selector_map |-> "map", url |-> "https://b.test",
      title |-> "B", screenshot |-> Given(Some(PLACEHOLDER_4PX_SCREENSHOT)),
      page_info |-> Given(None), pixels_above |-> Given(10),
      pixels_below |-> Given(20), browser_errors |-> Given(<<"partial render">>),
      is_pdf_viewer |-> Given(TRUE), loading_status |-> Given(Some("timeout"))]}

\* The dataclass-generated __init__: each field is bound to its argument (a
\* list argument by reference), or to its default.
BrowserStateSummary(a, tabs) ==
    [element_tree |-> a.element_tree,
     selector_map |-> a.selector_map,
     url |-> a.url,
     title |-> a.title,
     tabs |-> tabs,
     screenshot |-> OrDefault(a.screenshot, None),
     page_info |-> OrDefault(a.page_info, None),
     pixels_above |-> OrDefault(a.pixels_above, 0),
     pixels_below |-> OrDefault(a.pixels_below, 0),
     browser_errors |-> OrDefault(a.browser_errors, <<>>),
     is_pdf_viewer |-> OrDefault(a.is_pdf_viewer, FALSE),
     loading_status |-> OrDefault(a.loading_status, None)]

S == snapshot[1]

\* Reading snapshot.tabs with only the tabs whose parent is in the list kept:
\* what a validating model would give; a variant TabsOf is compared against.
TabsOfValidated(heap, obj) ==
    LET l == heap[obj.tabs]
    IN  SelectSeq(l, LAMBDA t : t[4] = None \/ \E i \in 1..Len(l) : l[i][1] = t[4][1])

\* Reading obj.tabs: the current contents of the list the field refers to.
TabsOf(heap, obj) == heap[obj.tabs]

\* Re-reading every field of a snapshot (lists by their contents).
ReadFields(heap, s) == [s EXCEPT !.tabs = TabsOf(heap, s)]

\* ------------------------------------------------------ BrowserStateHistory
\* The dataclass-generated __init__: fields are bound to the arguments.
BrowserStateHistory(url, title, tabs, interacted_element, screenshot_path) ==
    [url |-> url, title |-> title, tabs |-> tabs,
     interacted_element |-> interacted_element,
     screenshot_path |-> screenshot_path]

\* to_dict() with `[el.to_dict() for el in self.interacted_element if el]`.
to_dictDropsAbsent(heap, e) ==
    [tabs |-> [i \in 1..Len(TabsOf(heap, e)) |-> model_dump(TabsOf(heap, e)[i])],
     screenshot_path |-> e.screenshot_path,
     interacted_element |->
        LET present == SelectSeq(e.interacted_element, LAMBDA el : el # None)
        IN  [i \in 1..Len(present) |-> Some(ElToDict(present[i][1]))],
     url |-> e.url,
     title |-> e.title]

\* to_dict() with `data['screenshot_path'] = self.screenshot_path or None`.
to_dictFalsyPath(heap, e) ==
    [tabs |-> [i \in 1..Len(TabsOf(heap, e)) |-> model_dump(TabsOf(heap, e)[i])],
     screenshot_path |-> IF e.screenshot_path = Some("") THEN None ELSE e.screenshot_path,
     interacted_element |->
        [i \in 1..Len(e.interacted_element) |->
            IF e.interacted_element[i] # None
            THEN Some(ElToDict(e.interacted_element[i][1]))
            ELSE None],
     url |-> e.url,
     title |-> e.title]

\* to_dict(), lines 100-107. A DOMHistoryElement object is truthy, None is not.
to_dict(heap, e) ==
    [tabs |-> [i \in 1..Len(TabsOf(heap, e)) |-> model_dump(TabsOf(heap, e)[i])],
     screenshot_path |-> e.screenshot_path,
     interacted_element |->
        [i \in 1..Len(e.interacted_element) |->
            IF e.interacted_element[i] # None
            THEN Some(ElToDict(e.interacted_element[i][1]))
            ELSE None],
     url |-> e.url,
     title |-> e.title]

\* --------------------------------------------- operations on the objects
\* The heap holds the lists some object still refers to: the snapshot's list
\* has id 1 and an entry's own list, when it has one, id 2.
PathOptions == {None, Some(""), Some(FilePath), Some(LongPath)}

FsIdle ==
    /\ pc = "idle"
    /\ UNCHANGED fsVars

\* BrowserStateSummary(...): the producer builds a tab list and the new
\* snapshot refers to it.
NewSnapshot ==
    /\ FsIdle
    /\ \E a \in SummaryArgs, c \in TabLists :
         /\ lists' = <<c>>
         /\ snapshot' = Some(BrowserStateSummary(a, 1))
         /\ supplied' = Some([args |-> a, tabs |-> c])
    /\ fresh' = TRUE
    /\ UNCHANGED <<entry, dumped, targets, captured>>

\* Values a caller assigns.
AttrChoices ==
    {<<"url", "https://c.test">>, <<"screenshot", None>>,
     <<"is_pdf_viewer", TRUE>>, <<"loading_status", Some("network timeout")>>}

\* snapshot.f = v: the dataclass is not frozen, so the assignment rebinds the
\* field. For snapshot.tabs = other_list the heap keeps the list now referred
\* to under the same id (nothing else refers to the old one here).
SetAttr ==
    /\ FsIdle
    /\ snapshot # None
    /\ \/ \E c \in AttrChoices :
            /\ S[c[1]] # c[2]
            /\ snapshot' = Some([S EXCEPT ![c[1]] = c[2]])
            /\ UNCHANGED lists
       \/ \E c \in TabLists :
            /\ c # lists[S.tabs]
            /\ lists' = [lists EXCEPT ![S.tabs] = c]
            /\ UNCHANGED snapshot
    /\ fresh' = FALSE
    /\ UNCHANGED <<entry, dumped, supplied, targets, captured>>

\* snapshot.browser_errors.append(msg): in-place change of the list.
ErrorsAppend ==
    /\ FsIdle
    /\ snapshot # None
    /\ Len(S.browser_errors) <= MaxErrors
    /\ snapshot' = Some([S EXCEPT !.browser_errors = Append(@, "script injection failed")])
    /\ fresh' = FALSE
    /\ UNCHANGED <<lists, entry, dumped, supplied, targets, captured>>

\* The live tab list, the one the snapshot refers to, changes in place:
\* a tab opens (append), ...
ListAppend ==
    /\ FsIdle
    /\ snapshot # None
    /\ Len(lists[S.tabs]) < MaxTabs
    /\ \E t \in TabValues : lists' = [lists EXCEPT ![S.tabs] = Append(@, t)]
    /\ dumped' = None
    /\ fresh' = FALSE
    /\ UNCHANGED <<snapshot, entry, supplied, targets, captured>>

\* ... a tab closes (pop), ...
ListPop ==
    /\ FsIdle
    /\ snapshot # None
    /\ Len(lists[S.tabs]) > 0
    /\ lists' = [lists EXCEPT ![S.tabs] = SubSeq(@, 1, Len(@) - 1)]
    /\ dumped' = None
    /\ fresh' = FALSE
    /\ UNCHANGED <<snapshot, entry, supplied, targets, captured>>

\* ... or a TabInfo of the list is edited (tabs[i].title = ..., navigation).
ListEdit ==
    /\ FsIdle
    /\ snapshot # None
    /\ \E i \in 1..Len(lists[S.tabs]), t \in TabValues :
         /\ lists[S.tabs][i] # t
         /\ lists' = [lists EXCEPT ![S.tabs][i] = t]
    /\ dumped' = None
    /\ fresh' = FALSE
    /\ UNCHANGED <<snapshot, entry, supplied, targets, captured>>

\* BrowserStateHistory(url=s.url, title=s.title, tabs=..., ...) for a step with
\* action targets ts. The caller passes the snapshot's own list, or a copy of
\* it that it made; the constructor binds the field to what it is given.
NewEntry ==
    /\ FsIdle
    /\ snapshot # None
    /\ entry = None
    /\ \E ts \in TargetLists, path \in PathOptions \ {Some(LongPath)}, copy \in BOOLEAN :
         /\ lists' = IF copy THEN <<lists[1], lists[S.tabs]>> ELSE <<lists[1]>>
         /\ entry' = Some(BrowserStateHistory(S.url, S.title,
                              IF copy THEN 2 ELSE S.tabs,
                              ResolveTargets(ts), path))
         /\ targets' = ts
         /\ captured' = lists[S.tabs]
    /\ dumped' = None
    /\ UNCHANGED <<snapshot, supplied, fresh>>

\* entry.to_dict()
ToDictCall ==
    /\ FsIdle
    /\ entry # None
    /\ dumped = None
    /\ dumped' = Some(to_dict(lists, E))
    /\ UNCHANGED <<lists, snapshot, entry, supplied, targets, captured, fresh>>

\* ------------------------------------------------------- specifications
FsInit ==
    /\ pc = "idle"
    /\ fh = None
    /\ ret = None
    /\ exc = ""
    /\ caught = ""
    /\ sawFile = FALSE
    /\ readData = <<>>
    /\ interfered = FALSE

\* get_screenshot() of one entry, with other processes changing the file.
InitShot ==
    /\ FsInit
    /\ disk \in [{FilePath} -> FileStates]
    /\ lists = <<<<TabInfo(1, "https://a.test", "A", None)>>>>
    /\ snapshot = None
    /\ \E path \in PathOptions :
         entry = Some(BrowserStateHistory("https://a.test", "A", 1, <<None>>, path))
    /\ dumped = None
    /\ supplied = None
    /\ targets = <<None>>
    /\ captured = <<TabInfo(1, "https://a.test", "A", None)>>
    /\ fresh = FALSE

NextShot ==
    \/ Call
    \/ CheckExists
    \/ OpenFile
    \/ ReadEncode
    \/ Finish
    \/ FsSet
    \/ FsWrite
    \/ FsFault

SpecShot == InitShot /\ [][NextShot]_vars

\* Snapshots: construction, field assignment, in-place list changes.
InitSnap ==
    /\ FsInit
    /\ disk = [q \in {FilePath} |-> Absent]
    /\ lists = <<>>
    /\ snapshot = None
    /\ entry = None
    /\ dumped = None
    /\ supplied = None
    /\ targets = <<>>
    /\ captured = <<>>
    /\ fresh = FALSE

NextSnap ==
    \/ NewSnapshot
    \/ SetAttr
    \/ ErrorsAppend
    \/ ListAppend
    \/ ListPop
    \/ ListEdit

SpecSnap == InitSnap /\ [][NextSnap]_vars

\* History entries: creation from the current snapshot, to_dict(), and the
\* live tab list changing afterwards.
InitHist ==
    /\ FsInit
    /\ disk = [q \in {FilePath} |-> Absent]
    /\ \E c \in TabLists, a \in SummaryArgs :
         /\ lists = <<c>>
         /\ snapshot = Some(BrowserStateSummary(a, 1))
         /\ supplied = Some([args |-> a, tabs |-> c])
    /\ entry = None
    /\ dumped = None
    /\ targets = <<>>
    /\ captured = <<>>
    /\ fresh = TRUE

NextHist ==
    \/ NewEntry
    \/ ToDictCall
    \/ ListAppend
    \/ ListPop
    \/ ListEdit

SpecHist == InitHist /\ [][NextHist]_vars

\* ===================================================================
\* Properties of get_screenshot(), checked under SpecShot
\* ===================================================================
P == E.screenshot_path

\* RFC 4648 decoding, written independently of the encoder above.
B64Alphabet ==
    <<"A","B","C","D","E","F","G","H","I","J","K","L","M","N","O","P",
      "Q","R","S","T","U","V","W","X","Y","Z","a","b","c","d","e","f",
      "g","h","i","j","k","l","m","n","o","p","q","r","s","t","u","v",
      "w","x","y","z","0","1","2","3","4","5","6","7","8","9","+","/">>

B64Value(ch) == (CHOOSE i \in 1..64 : B64Alphabet[i] = ch) - 1

RECURSIVE B64Decode(_)
B64Decode(str) ==
    IF Len(str) = 0 THEN <<>>
    ELSE LET v1 == B64Value(str[1])
             v2 == B64Value(str[2])
         IN  IF str[3] = "=" THEN <<v1 * 4 + v2 \div 16>>
             ELSE LET v3 == B64Value(str[3])
                  IN  IF str[4] = "="
                      THEN <<v1 * 4 + v2 \div 16, (v2 % 16) * 16 + v3 \div 4>>
                      ELSE <<v1 * 4 + v2 \div 16, (v2 % 16) * 16 + v3 \div 4,
                             (v3 % 4) * 64 + B64Value(str[4])>>
                           \o B64Decode(SubSeq(str, 5, Len(str)))

\* str is the padded base64 text of exactly the bytes data.
IsBase64Of(str, data) ==
    /\ Len(str) = 4 * ((Len(data) + 2) \div 3)
    /\ \A i \in 1..Len(str) :
         \/ \E k \in 1..64 : B64Alphabet[k] = str[i]
         \/ str[i] = "=" /\ i > Len(str) - 2 /\ (i = Len(str) \/ str[Len(str)] = "=")
    /\ B64Decode(str) = data

\* No file has the name p: the name is too long to exist, or nothing is there.
NamesNoFile(p) == p = LongPath \/ (p = FilePath /\ disk[FilePath].kind = "absent")

\* The first eight bytes of every PNG file; shorter files decode to no image.
PngSignature == <<137, 80, 78, 71, 13, 10, 26, 10>>
DecodableAsImage(data) ==
    Len(data) >= Len(PngSignature) /\ SubSeq(data, 1, Len(PngSignature)) = PngSignature

\* C1: get_screenshot() returns None and does not raise when the entry has no
\* screenshot_path, and when its screenshot_path names a file that does not
\* exist on disk.
C1_AbsenceWhenNoFile ==
    (pc = "done" /\ ~interfered /\ (P = None \/ (P # None /\ NamesNoFile(P[1]))))
        => (exc = "" /\ ret = None)

\* C2: when screenshot_path names an existing readable file, get_screenshot()
\* returns the base64 text of exactly the bytes of that file, whatever they are.
C2_EncodesExactBytes ==
    (/\ pc = "done"
     /\ ~interfered
     /\ P = Some(FilePath)
     /\ disk[FilePath].kind = "file"
     /\ disk[FilePath].mode = "ok")
        => (exc = "" /\ ret # None /\ IsBase64Of(ret[1], disk[FilePath].data))

C2_Witness ==
    /\ pc = "done"
    /\ ~interfered
    /\ P = Some(FilePath)
    /\ disk[FilePath] = File(<<137, 0, 255>>, "ok")
    /\ ret = Some(<<"i", "Q", "D", "/">>)

\* C3 as stated: if the file exists but cannot be read, or cannot be decoded
\* as an image, get_screenshot() returns None: it never raises and never
\* returns data for an undecodable file.
C3_AbsenceWhenUnreadableOrNotImage ==
    (/\ pc = "done"
     /\ ~interfered
     /\ P = Some(FilePath)
     /\ disk[FilePath].kind # "absent"
     /\ \/ disk[FilePath].kind = "dir"
        \/ disk[FilePath].mode # "ok"
        \/ ~DecodableAsImage(disk[FilePath].data))
        => (exc = "" /\ ret = None)

\* C3 as amended: once exists() has returned True the call never raises; it
\* returns None exactly when open() or read() failed (the failure is
\* swallowed), in particular for a directory and for a file that cannot be
\* opened or read; the bytes of a file that was read are returned encoded
\* without being decoded or validated as an image.
C3_AbsenceWhenUnreadable ==
    (pc = "done" /\ sawFile)
        => /\ exc = ""
           /\ (ret = None) <=> (caught # "")
           /\ (/\ ~interfered
               /\ P = Some(FilePath)
               /\ (disk[FilePath].kind = "dir" \/ disk[FilePath].mode # "ok"))
                 => ret = None

C3_Witness ==
    /\ pc = "done"
    /\ sawFile
    /\ ~interfered
    /\ disk[FilePath] = File(<<0>>, "noperm")
    /\ caught = "PermissionError"
    /\ ret = None

\* C10: whatever other processes do to the file between the existence check
\* and the read, a call that saw the file never raises, its result is None or
\* the base64 text of the bytes it read, and the entry is left as it was.
C10_SafeAgainstConcurrentChange ==
    /\ [](pc = "done" /\ sawFile
            => /\ exc = ""
               /\ (ret = None \/ IsBase64Of(ret[1], readData)))
    /\ [][entry' = entry]_vars

C10_Witness ==
    /\ pc = "done"
    /\ sawFile
    /\ interfered
    /\ disk[FilePath].kind = "absent"
    /\ caught = "FileNotFoundError"
    /\ ret = None

\* ===================================================================
\* Properties of snapshots, checked under SpecSnap
\* ===================================================================
\* The values handed to the constructor, defaults filled in.
SuppliedFields ==
    LET a == supplied[1].args
    IN  [element_tree |-> a.element_tree,
         selector_map |-> a.selector_map,
         url |-> a.url,
         title |-> a.title,
         tabs |-> supplied[1].tabs,
         screenshot |-> IF a.screenshot = NotGiven THEN None ELSE a.screenshot[1],
         page_info |-> IF a.page_info = NotGiven THEN None ELSE a.page_info[1],
         pixels_above |-> IF a.pixels_above = NotGiven THEN 0 ELSE a.pixels_above[1],
         pixels_below |-> IF a.pixels_below = NotGiven THEN 0 ELSE a.pixels_below[1],
         browser_errors |->
            IF a.browser_errors = NotGiven THEN <<>> ELSE a.browser_errors[1],
         is_pdf_viewer |->
            IF a.is_pdf_viewer = NotGiven THEN FALSE ELSE a.is_pdf_viewer[1],
         loading_status |->
            IF a.loading_status = NotGiven THEN None ELSE a.loading_status[1]]

\* C7: whatever is done to a snapshot after its construction, field
\* assignment and in-place list changes included, re-reading each field
\* gives the value supplied at construction.
C7_SnapshotNeverMutated ==
    snapshot # None => ReadFields(lists, S) = SuppliedFields

\* Every parent_page_id of the list is the page_id of another tab of the list.
ParentRefsResolve(l) ==
    \A i \in 1..Len(l) :
        l[i][4] # None => \E j \in 1..Len(l) : j # i /\ l[j][1] = l[i][4][1]

\* C9 as stated: in every snapshot that can be constructed, each tab with a
\* parent_page_id has it equal to the page_id of another tab of the same list.
C9_ParentRefsResolve ==
    (snapshot # None /\ fresh) => ParentRefsResolve(lists[S.tabs])

\* C9 as amended: construction validates nothing about the tabs: the new
\* snapshot reads back exactly the tab list it was given, so its parent
\* references resolve exactly when those of the producer's list do.
C9_ConstructionKeepsTabs ==
    (snapshot # None /\ fresh)
        => /\ TabsOf(lists, S) = supplied[1].tabs
           /\ ParentRefsResolve(TabsOf(lists, S)) <=> ParentRefsResolve(supplied[1].tabs)

C9_Witness ==
    /\ snapshot # None
    /\ fresh
    /\ supplied[1].tabs = <<TabInfo(2, "https://b.test", "B", Some(1))>>
    /\ ~ParentRefsResolve(lists[S.tabs])

\* ===================================================================
\* Properties of history entries, checked under SpecHist
\* ===================================================================
\* C4: to_dict() returns a mapping with exactly the keys tabs,
\* screenshot_path, interacted_element, url and title; url, title and
\* screenshot_path are the entry's own, and tabs lists the plain mapping of
\* each tab of the entry, in order, with page_id, url, title, parent_page_id.
C4_ToDictShape ==
    dumped # None =>
        LET d == dumped[1]
            ts == lists[E.tabs]
        IN  /\ DOMAIN d = {"tabs", "screenshot_path", "interacted_element", "url", "title"}
            /\ d.url = E.url
            /\ d.title = E.title
            /\ d.screenshot_path = E.screenshot_path
            /\ Len(d.tabs) = Len(ts)
            /\ \A i \in 1..Len(ts) :
                 /\ DOMAIN d.tabs[i] = {"page_id", "url", "title", "parent_page_id"}
                 /\ d.tabs[i].page_id = ts[i][1]
                 /\ d.tabs[i].url = ts[i][2]
                 /\ d.tabs[i].title = ts[i][3]
                 /\ d.tabs[i].parent_page_id = ts[i][4]

C4_Witness ==
    /\ dumped # None
    /\ E.screenshot_path = None
    /\ Len(dumped[1].tabs) = 2
    /\ dumped[1].tabs[1].parent_page_id = None
    /\ dumped[1].tabs[2].parent_page_id = Some(1)

\* C5: the interacted_element list has one slot per action target, in target
\* order, in the entry and in the output of to_dict(): slot i is None exactly
\* when target i is unresolved and is the element's mapping otherwise.
C5_OneSlotPerTarget ==
    entry # None =>
        /\ Len(E.interacted_element) = Len(targets)
        /\ \A i \in 1..Len(targets) : E.interacted_element[i] = targets[i]
        /\ dumped # None =>
             LET ie == dumped[1].interacted_element
             IN  /\ Len(ie) = Len(targets)
                 /\ \A i \in 1..Len(targets) :
                      /\ (ie[i] = None) <=> (targets[i] = None)
                      /\ targets[i] # None => ie[i] = Some(ElToDict(targets[i][1]))

C5_Witness ==
    /\ dumped # None
    /\ Len(targets) = 2
    /\ targets[1] = None
    /\ targets[2] # None
    /\ dumped[1].interacted_element[1] = None
    /\ dumped[1].interacted_element[2] # None

\* Reconstruction of the field values from a mapping, done outside this file:
\* TabInfo(**m) and DOMHistoryElement(**m) per slot, None kept.
FromDict(d) ==
    [url |-> d.url,
     title |-> d.title,
     tabs |->
        [i \in 1..Len(d.tabs) |->
            TabInfo(d.tabs[i].page_id, d.tabs[i].url, d.tabs[i].title,
                    IF "parent_page_id" \in DOMAIN d.tabs[i]
                    THEN d.tabs[i].parent_page_id ELSE None)],
     interacted_element |->
        [i \in 1..Len(d.interacted_element) |->
            IF d.interacted_element[i] = None THEN None
            ELSE LET m == d.interacted_element[i][1]
                 IN  Some(<<m.tag_name, m.xpath, m.highlight_index>>)],
     screenshot_path |-> d.screenshot_path]

\* C6: reconstructing from the mapping to_dict() returns gives back the same
\* url, title, screenshot_path, tabs (parent_page_id included) and the same
\* interacted-element slots, resolved or absent.
C6_RoundTrip ==
    dumped # None =>
        FromDict(dumped[1]) =
            [url |-> E.url,
             title |-> E.title,
             tabs |-> lists[E.tabs],
             interacted_element |-> E.interacted_element,
             screenshot_path |-> E.screenshot_path]

C6_Witness ==
    /\ dumped # None
    /\ E.screenshot_path = Some("")
    /\ Len(targets) = 2
    /\ \A i \in 1..Len(targets) : targets[i] # None
    /\ \E i \in 1..Len(lists[E.tabs]) : lists[E.tabs][i][4] # None

\* C8: after an entry is created from a snapshot's tab list, later changes of
\* the live tab list leave the entry's tabs, and so the tabs of to_dict(), as
\* they were captured.
C8_EntryOwnsCopyOfTabs ==
    entry # None =>
        /\ lists[E.tabs] = captured
        /\ to_dict(lists, E).tabs = [i \in 1..Len(captured) |-> model_dump(captured[i])]

====
